---------------------------- MODULE Spec2Model ----------------------------
(***************************************************************************)
(* libquicr tools/draft_parser: the MoQT draft parser and code generator.  *)
(*                                                                         *)
(* The model follows the Python sources:                                   *)
(*   moqt_parser/parsers.py        ProtocolMessageParser                   *)
(*   moqt_parser/message_spec.py   Field, MessageSpec                      *)
(*   moqt_parser/code_generator.py CodeGenerator                           *)
(*   main.py                       main                                    *)
(*                                                                         *)
(* Text.  A Python str that the code only stores, compares or concatenates *)
(* is a TLA+ string.  A field label is a sequence of words (the label      *)
(* "Error Code" is <<"Error", "Code">>) so that replace(" ", ...) and      *)
(* lower() are computed; a default value is a sequence of characters so    *)
(* that int(s, 16) is computed.  An Optional[str] attribute holds None     *)
(* (the string "None") when the code leaves it None; an Optional[Field]    *)
(* is a sequence of length 0 (None) or 1.                                  *)
(*                                                                         *)
(* A line of a message block is a record of what the code looks at:        *)
(*   ob      the line starts with "["                                      *)
(*   sp      white space follows that "["                                  *)
(*   kind    "field": label "(" type ")" follows; "prose": other text;     *)
(*           "": nothing but brackets, comma or comment                    *)
(*   name, type, default, rep ("..." after the type or the default)        *)
(*   cb      "]" ends the text before the comment                          *)
(*   comment a "# ..." comment ends the line                               *)
(* laid out as  [ob sp] name (type) [= default] [...] [cb] [,] [comment].  *)
(* A trailing comma is not recorded: both places that look at the end of   *)
(* a line strip it first (parsers.py lines 20 and 125).                    *)
(***************************************************************************)
EXTENDS Integers, Sequences, FiniteSets, TLC

VARIABLES
    field_type_map,   \* ProtocolMessageParser.field_type_map (the caller's dict)
    text,             \* the message blocks of the input, in input order
    m,                \* parse_messages: index of the block the loop is at
    message_list,     \* parse_messages: message_list
    frame,            \* parse_message: its locals and its position
    using_map,        \* main: using_map
    repeat_using_map, \* main: repeat_using_map
    header_enums,     \* generate_header: the enum section, as rendered
    files,            \* main: the output files opened for writing
    pc,               \* position of the caller of parse_message
    exc               \* the exception that ended the run, "" when none

vars == <<field_type_map, text, m, message_list, frame, using_map,
          repeat_using_map, header_enums, files, pc, exc>>

\* Bounds of the model.
MaxLines == 3
MaxBlocks == 2

None == "None"
Unset == "unset"
NoEnum == -1

--------------------------------------------------------------------------
\* Strings

RECURSIVE Join(_, _)
Join(words, sep) ==
    IF words = <<>> THEN ""
    ELSE IF Len(words) = 1 THEN words[1]
    ELSE words[1] \o sep \o Join(Tail(words), sep)

\* str.lower() on the words the inputs are drawn from.
lower ==
    [w \in {"Type", "TYPE", "Length", "Error", "Code", "Reason", "Phrase",
            "Parameters", "Blob", "Track", "Name", "Group_0", "Extra"} |->
        CASE w = "Type" -> "type"
          [] w = "TYPE" -> "type"
          [] w = "Length" -> "length"
          [] w = "Error" -> "error"
          [] w = "Code" -> "code"
          [] w = "Reason" -> "reason"
          [] w = "Phrase" -> "phrase"
          [] w = "Parameters" -> "parameters"
          [] w = "Blob" -> "blob"
          [] w = "Track" -> "track"
          [] w = "Name" -> "name"
          [] w = "Group_0" -> "group_0"
          [] w = "Extra" -> "extra"]

\* str.title() on the words of the block headers.
title ==
    [w \in {"ANNOUNCE", "ERROR", "FETCH"} |->
        CASE w = "ANNOUNCE" -> "Announce"
          [] w = "ERROR" -> "Error"
          [] w = "FETCH" -> "Fetch"]

RECURSIVE MapWords(_, _)
MapWords(f, words) ==
    IF words = <<>> THEN <<>>
    ELSE <<f[words[1]]>> \o MapWords(f, Tail(words))

HexDigits ==
    ("0" :> 0) @@ ("1" :> 1) @@ ("2" :> 2) @@ ("3" :> 3) @@ ("4" :> 4) @@
    ("5" :> 5) @@ ("6" :> 6) @@ ("7" :> 7) @@ ("8" :> 8) @@ ("9" :> 9) @@
    ("a" :> 10) @@ ("b" :> 11) @@ ("c" :> 12) @@ ("d" :> 13) @@
    ("e" :> 14) @@ ("f" :> 15) @@ ("A" :> 10) @@ ("B" :> 11) @@
    ("C" :> 12) @@ ("D" :> 13) @@ ("E" :> 14) @@ ("F" :> 15)

\* int(s, 16): an optional "0x" or "0X", then one or more hexadecimal digits.
HexBody(s) ==
    IF Len(s) >= 2 /\ s[1] = "0" /\ s[2] \in {"x", "X"}
    THEN SubSeq(s, 3, Len(s))
    ELSE s

IsHex(s) ==
    /\ HexBody(s) # <<>>
    /\ \A k \in 1..Len(HexBody(s)) : HexBody(s)[k] \in DOMAIN HexDigits

RECURSIVE DigitsValue(_, _, _)
DigitsValue(digits, base, acc) ==
    IF digits = <<>> THEN acc
    ELSE DigitsValue(Tail(digits), base, base * acc + HexDigits[digits[1]])

int10(s) == DigitsValue(HexBody(s), 10, 0)

\* int(s, 16) of a string for which IsHex holds.
int16(s) == DigitsValue(HexBody(s), 16, 0)

--------------------------------------------------------------------------
\* Lines

\* line.startswith("[")
StartsWithBracket(line) == line.ob

\* line.endswith("]"): a comment after the bracket hides it.
EndsWithBracket(line) == line.cb /\ ~line.comment

\* line[:-1].strip()
DropLast(line) == [line EXCEPT !.cb = FALSE]

\* line[1:].strip()
DropFirst(line) == [line EXCEPT !.ob = FALSE, !.sp = FALSE]

\* line.split("#")[0].strip().rstrip(",")
StripComment(line) == [line EXCEPT !.comment = FALSE]

\* not line
IsEmpty(line) == ~line.ob /\ line.kind = "" /\ ~line.cb /\ ~line.comment

\* re.match(pattern, line): an optional "[" immediately followed by the
\* label, "(" type ")", then optionally "= default", "..." and "]".
Matches(line) == line.kind = "field" /\ ~(line.ob /\ line.sp)

\* match.groups()[2]: "= ([^,]+)" runs to the end of the line, and takes
\* the "..." and the "]" that follow the default with it.
DefaultGroup(line) ==
    IF line.default = <<>> THEN <<>>
    ELSE line.default
         \o (IF line.rep THEN <<" ", ".", ".", ".">> ELSE <<>>)
         \o (IF line.cb THEN <<" ", "]">> ELSE <<>>)

--------------------------------------------------------------------------
\* message_spec.py: Field and MessageSpec

\* The dataclass Field: the keyword arguments of a construction, over the
\* defaults of the class (lines 7-24).  variable_length_size_cpp_using_type
\* is no attribute of the class: parse_message sets it on a field that
\* elides its size field, and it is Unset on every other field.
FieldDefaults ==
    [spec_type |-> None, cpp_type |-> None, cpp_using_type |-> None,
     cpp_using_name |-> None, length |-> None, default_value |-> <<>>,
     is_optional |-> FALSE, is_repeated |-> FALSE,
     is_variable_length |-> FALSE, group_name |-> None, group_fields |-> <<>>,
     variable_length_size_cpp_using_type |-> Unset]

Field(kw) == kw @@ FieldDefaults

MessageSpec(name, spec_name, message_type, message_enum, fields, groups) ==
    [name |-> name, spec_name |-> spec_name, message_type |-> message_type,
     message_enum |-> message_enum, fields |-> fields,
     optional_groups |-> groups]

--------------------------------------------------------------------------
\* parsers.py: ProtocolMessageParser.parse_field_definition

\* The marker without the key that failed.
LookupError_anonymous(name) == "#error \"field_type_map look error\""

\* f'#error "field_type_map look error for {name}"'
LookupError(name) == "#error \"field_type_map look error for " \o name \o "\""

\* resolve with the bare label looked up before the qualified key.
resolve_bare_first(message_name, words, spec_type, tm) ==
    LET name == Join(words, " ")
        comp_name == message_name \o "::" \o Join(words, "")
    IN  IF name \in DOMAIN tm
        THEN [cpp_type |-> tm[name], cpp_using_name |-> Join(words, "")]
        ELSE IF comp_name \in DOMAIN tm
        THEN [cpp_type |-> tm[comp_name],
              cpp_using_name |-> message_name \o Join(words, "")]
        ELSE IF spec_type \in DOMAIN tm
        THEN [cpp_type |-> tm[spec_type], cpp_using_name |-> Join(words, "")]
        ELSE [cpp_type |-> "#error \"field_type_map look error for "
                               \o name \o "\"",
              cpp_using_name |-> Join(words, "")]

\* Lines 41-52: cpp_type and cpp_using_name of a field.
resolve(message_name, words, spec_type, tm) ==
    LET name == Join(words, " ")
        comp_name == message_name \o "::" \o Join(words, "")
    IN  IF comp_name \in DOMAIN tm
        THEN [cpp_type |-> tm[comp_name],
              cpp_using_name |-> message_name \o Join(words, "")]
        ELSE IF name \in DOMAIN tm
        THEN [cpp_type |-> tm[name], cpp_using_name |-> Join(words, "")]
        ELSE IF spec_type \in DOMAIN tm
        THEN [cpp_type |-> tm[spec_type], cpp_using_name |-> Join(words, "")]
        ELSE [cpp_type |-> LookupError(name),
              cpp_using_name |-> Join(words, "")]

\* <<>> is the None the code returns for a line that yields no field.
parse_field_definition(message_name, raw, group_name, tm) ==
    LET line == StripComment(raw)
    IN  IF IsEmpty(line) THEN <<>>
        ELSE IF ~Matches(line) THEN <<>>
        ELSE
          LET r == resolve(message_name, line.name, line.type, tm)
              is_repeated == line.rep
          IN <<Field([
                name |-> Join(MapWords(lower, line.name), "_"),
                field_type |-> line.type,
                cpp_type |-> r.cpp_type,
                cpp_using_type |-> IF is_repeated
                                   THEN "std::vector<" \o r.cpp_type \o ">"
                                   ELSE r.cpp_type,
                cpp_using_name |-> r.cpp_using_name,
                spec_name |-> Join(line.name, " "),
                spec_type |-> line.type,
                default_value |-> DefaultGroup(line),
                is_optional |-> StartsWithBracket(line) \/ group_name # None,
                is_repeated |-> is_repeated,
                is_variable_length |-> line.type = "..",
                group_name |-> group_name])>>

--------------------------------------------------------------------------
\* parsers.py: ProtocolMessageParser.parse_message, one operator per
\* stretch of the loop.  Each takes the locals (a frame) and the type
\* table and gives the locals and the table after it.
\*
\* frame.pc:  "idle"     not in parse_message
\*            "scan"     at the head of the outer loop (line 98)
\*            "group"    at the head of the inner loop (line 124)
\*            "closed"   left the inner loop by break (line 141)
\*            "returned" parse_message has returned frame.result
\*            "raised"   an exception left parse_message (frame.exc)

IdleFrame ==
    [pc |-> "idle", exc |-> "", message_name |-> "", message_spec |-> "",
     lines |-> <<>>, i |-> 1, fields |-> <<>>, optional_groups |-> <<>>,
     current_group |-> None, current_group_field |-> <<>>,
     group_fields |-> <<>>, message_enum |-> NoEnum, result |-> <<>>]

Raise(f, e) == [f EXCEPT !.pc = "raised", !.exc = e]

Step(f, tm) == [f |-> f, tm |-> tm]

\* list.pop()
ButLast(s) == SubSeq(s, 1, Len(s) - 1)
Last(s) == s[Len(s)]

\* A field that took prev as its size field.
WithSize(field, prev) ==
    [field EXCEPT !.variable_length_size_cpp_using_type = prev.cpp_using_type]

\* Lines 76-97.  A block is its header words and its body lines; the body
\* lines are the non-empty lines other than "}" (lines 91-95).
parse_message_enter(block) ==
    [IdleFrame EXCEPT
        !.pc = "scan",
        !.message_spec = Join(block.header, "_"),
        !.message_name = Join(MapWords(title, block.header), ""),
        !.lines = block.lines]

AtLine(f) == f.i <= Len(f.lines)
Line(f) == f.lines[f.i]

\* Lines 167-184: a line in the Scanning state.
AtScan(f) == f.pc = "scan" /\ AtLine(f) /\ ~StartsWithBracket(Line(f))

\* parse_message_scan without the pop of line 177.
parse_message_scan_keep(f, tm) ==
    LET parsed == parse_field_definition(f.message_name, Line(f), None, tm)
    IN  IF parsed = <<>>
        THEN Step(Raise(f, "AttributeError"), tm)
        ELSE
          LET field == parsed[1]
              istype == field.name = "type" /\ field.default_value # <<>>
          IN  IF istype /\ ~IsHex(field.default_value)
              THEN Step(Raise(f, "ValueError"), tm)
              ELSE
                LET f1 == IF istype
                          THEN [f EXCEPT !.message_enum =
                                             int16(field.default_value)]
                          ELSE f
                IN  IF field.is_repeated \/ field.is_variable_length
                    THEN IF f1.fields = <<>>
                         THEN Step(Raise(f1, "IndexError"), tm)
                         ELSE Step([f1 EXCEPT
                                      !.fields = Append(f1.fields,
                                          WithSize(field, Last(f1.fields))),
                                      !.i = f1.i + 1], tm)
                    ELSE Step([f1 EXCEPT !.fields = Append(f1.fields, field),
                                         !.i = f1.i + 1], tm)

parse_message_scan(f, tm) ==
    LET parsed == parse_field_definition(f.message_name, Line(f), None, tm)
    IN  IF parsed = <<>>
        THEN Step(Raise(f, "AttributeError"), tm)   \* line 169: field.name
        ELSE
          LET field == parsed[1]
              istype == field.name = "type" /\ field.default_value # <<>>
          IN  IF istype /\ ~IsHex(field.default_value)
              THEN Step(Raise(f, "ValueError"), tm) \* line 171: int(.., 16)
              ELSE
                LET f1 == IF istype
                          THEN [f EXCEPT !.message_enum =
                                             int16(field.default_value)]
                          ELSE f
                IN  IF field.is_repeated \/ field.is_variable_length
                    THEN IF f1.fields = <<>>
                         THEN Step(Raise(f1, "IndexError"), tm) \* line 177
                         ELSE Step([f1 EXCEPT
                                      !.fields = Append(ButLast(f1.fields),
                                          WithSize(field, Last(f1.fields))),
                                      !.i = f1.i + 1], tm)
                    ELSE Step([f1 EXCEPT !.fields = Append(f1.fields, field),
                                         !.i = f1.i + 1], tm)

\* Lines 102-121: a line that starts with "[" opens a group.
AtOpen(f) == f.pc = "scan" /\ AtLine(f) /\ StartsWithBracket(Line(f))

\* parse_message_open that counts the groups from 1.
parse_message_open_from_one(f, tm) ==
    LET current_group == "Group_" \o ToString(Len(f.optional_groups) + 1)
        current_group_name == "group_" \o ToString(Len(f.optional_groups) + 1)
        current_group_type == f.message_name \o "::" \o current_group
    IN  Step([f EXCEPT
                !.pc = "group",
                !.current_group = current_group,
                !.group_fields = <<>>,
                !.current_group_field =
                    <<Field([
                        name |-> current_group_name,
                        field_type |-> current_group_type,
                        cpp_type |-> current_group_type,
                        cpp_using_type |-> None,
                        cpp_using_name |-> current_group_type,
                        spec_name |-> current_group_name,
                        spec_type |-> "optional group",
                        default_value |-> <<>>,
                        is_optional |-> TRUE,
                        is_repeated |-> FALSE,
                        is_variable_length |-> FALSE,
                        group_name |-> current_group,
                        group_fields |-> <<>>])>>], tm)

parse_message_open(f, tm) ==
    LET current_group == "Group_" \o ToString(Len(f.optional_groups))
        current_group_name == "group_" \o ToString(Len(f.optional_groups))
        current_group_type == f.message_name \o "::" \o current_group
    IN  Step([f EXCEPT
                !.pc = "group",
                !.current_group = current_group,
                !.group_fields = <<>>,
                !.current_group_field =
                    <<Field([
                        name |-> current_group_name,
                        field_type |-> current_group_type,
                        cpp_type |-> current_group_type,
                        cpp_using_type |-> None,
                        cpp_using_name |-> current_group_type,
                        spec_name |-> current_group_name,
                        spec_type |-> "optional group",
                        default_value |-> <<>>,
                        is_optional |-> TRUE,
                        is_repeated |-> FALSE,
                        is_variable_length |-> FALSE,
                        group_name |-> current_group,
                        group_fields |-> <<>>])>>], tm)

\* Lines 142-159: a line of the group that does not end with "]".
AtMember(f) == f.pc = "group" /\ AtLine(f) /\ ~EndsWithBracket(Line(f))

parse_message_member(f, tm) ==
    LET line == IF StartsWithBracket(Line(f)) THEN DropFirst(Line(f))
                ELSE Line(f)
        parsed == parse_field_definition(f.message_name, line,
                                         f.current_group, tm)
        cgf == f.current_group_field[1]
    IN  IF parsed = <<>>
        THEN Step([f EXCEPT !.i = f.i + 1], tm)
        ELSE
          LET field == parsed[1]
          IN  IF field.is_variable_length
              THEN IF cgf.group_fields = <<>>
                   THEN Step(Raise(f, "IndexError"), tm)    \* line 152
                   ELSE Step([f EXCEPT
                        !.current_group_field = <<[cgf EXCEPT !.group_fields =
                            Append(ButLast(cgf.group_fields),
                                   WithSize(field, Last(f.group_fields)))]>>,
                        !.group_fields = Append(ButLast(f.group_fields),
                                   WithSize(field, Last(f.group_fields))),
                        !.i = f.i + 1], tm)
              ELSE Step([f EXCEPT
                        !.current_group_field = <<[cgf EXCEPT !.group_fields =
                            Append(cgf.group_fields, field)]>>,
                        !.group_fields = Append(f.group_fields, field),
                        !.i = f.i + 1], tm)

\* Lines 126-141: the line of the group that ends with "]".
AtClose(f) == f.pc = "group" /\ AtLine(f) /\ EndsWithBracket(Line(f))

\* parse_message_close that moves to the next line as lines 146-159 do.
parse_message_close_advance(f, tm) ==
    LET line == DropLast(Line(f))
        parsed == IF IsEmpty(line) THEN <<>>
                  ELSE parse_field_definition(f.message_name, line,
                                              f.current_group, tm)
        cgf == f.current_group_field[1]
    IN  IF parsed = <<>>
        THEN Step([f EXCEPT !.pc = "closed", !.i = f.i + 1], tm)
        ELSE Step([f EXCEPT
                    !.pc = "closed",
                    !.i = f.i + 1,
                    !.current_group_field = <<[cgf EXCEPT !.group_fields =
                        Append(cgf.group_fields, parsed[1])]>>,
                    !.group_fields = Append(f.group_fields, parsed[1])], tm)

parse_message_close(f, tm) ==
    LET line == DropLast(Line(f))
        parsed == IF IsEmpty(line) THEN <<>>
                  ELSE parse_field_definition(f.message_name, line,
                                              f.current_group, tm)
        cgf == f.current_group_field[1]
    IN  IF parsed = <<>>
        THEN Step([f EXCEPT !.pc = "closed"], tm)
        ELSE Step([f EXCEPT
                    !.pc = "closed",
                    !.current_group_field = <<[cgf EXCEPT !.group_fields =
                        Append(cgf.group_fields, parsed[1])]>>,
                    !.group_fields = Append(f.group_fields, parsed[1])], tm)

\* Lines 161-166 and 184: after the inner loop, left by break or because
\* the lines ran out.
AtGroupEnd(f) == f.pc = "closed" \/ (f.pc = "group" /\ ~AtLine(f))

\* parse_message_group_end without lines 162-164.
parse_message_group_end_unregistered(f, tm) ==
    LET cgf == f.current_group_field[1]
    IN  Step([f EXCEPT
                !.pc = "scan",
                !.fields = Append(f.fields, cgf),
                !.optional_groups = Append(f.optional_groups,
                                           <<f.current_group, f.group_fields>>),
                !.current_group = None,
                !.i = f.i + 1],
             tm)

parse_message_group_end(f, tm) ==
    LET cgf == f.current_group_field[1]
    IN  Step([f EXCEPT
                !.pc = "scan",
                !.fields = Append(f.fields, cgf),
                !.optional_groups = Append(f.optional_groups,
                                           <<f.current_group, f.group_fields>>),
                !.current_group = None,
                !.i = f.i + 1],
             (cgf.field_type :> cgf.field_type) @@ tm)

\* Lines 186-197: the lines are consumed.
AtReturn(f) == f.pc = "scan" /\ ~AtLine(f)

\* parse_message_return without the test of line 186.
parse_message_return_always(f, tm) ==
    Step([f EXCEPT !.pc = "returned",
            !.result = <<MessageSpec(f.message_name, f.message_spec,
                                     f.message_name, f.message_enum,
                                     f.fields, f.optional_groups)>>], tm)

parse_message_return(f, tm) ==
    IF f.message_enum = NoEnum
    THEN Step([f EXCEPT !.pc = "returned", !.result = <<>>], tm)
    ELSE Step([f EXCEPT !.pc = "returned",
                 !.result = <<MessageSpec(f.message_name, f.message_spec,
                                          f.message_name, f.message_enum,
                                          f.fields, f.optional_groups)>>], tm)

\* The loop of parse_message (lines 98-184) and its end: the stretch the
\* frame is at.
parse_message_step(f, tm) ==
    CASE AtScan(f) -> parse_message_scan(f, tm)
      [] AtOpen(f) -> parse_message_open(f, tm)
      [] AtMember(f) -> parse_message_member(f, tm)
      [] AtClose(f) -> parse_message_close(f, tm)
      [] AtGroupEnd(f) -> parse_message_group_end(f, tm)
      [] AtReturn(f) -> parse_message_return(f, tm)

\* parse_message from a frame to its return or its exception.
RECURSIVE parse_message_run(_, _)
parse_message_run(f, tm) ==
    IF f.pc \in {"returned", "raised"} THEN Step(f, tm)
    ELSE LET s == parse_message_step(f, tm) IN parse_message_run(s.f, s.tm)

parse_message(block, tm) == parse_message_run(parse_message_enter(block), tm)

\* parsers.py: ProtocolMessageParser.parse_messages (lines 199-211) on the
\* blocks from index k on: the exception that ended it ("" when it
\* returned), the list it returned, and the type table it left.
RECURSIVE parse_messages_from(_, _, _, _)
parse_messages_from(blocks, k, tm, list) ==
    IF k > Len(blocks) THEN [exc |-> "", message_list |-> list, tm |-> tm]
    ELSE LET r == parse_message(blocks[k], tm)
         IN  IF r.f.pc = "raised"
             THEN [exc |-> r.f.exc, message_list |-> <<>>, tm |-> r.tm]
             ELSE parse_messages_from(blocks, k + 1, r.tm,
                                      list \o r.f.result)

parse_messages(blocks, tm) == parse_messages_from(blocks, 1, tm, <<>>)

--------------------------------------------------------------------------
\* main.py: the type table, the discard list and the alias aggregation

\* main.py lines 11-43
type_map ==
    ("i" :> "std::uint64_t") @@ ("8" :> "std::uint8_t") @@
    ("16" :> "std::uint16_t") @@ ("32" :> "std::uint32_t") @@
    ("64" :> "std::uint64_t") @@
    ("Start Group" :> "quicr::messages::GroupId") @@
    ("End Group" :> "quicr::messages::GroupId") @@
    ("Start Object" :> "quicr::messages::ObjectId") @@
    ("End Object" :> "quicr::messages::ObjectId") @@
    ("Track Namespace" :> "quicr::TrackNamespace") @@
    ("Track Name" :> "quicr::Bytes") @@
    ("Track Namespace Prefix" :> "quicr::TrackNamespace") @@
    ("Subscribe Parameters" :> "quicr::messages::Parameter") @@
    ("Setup Parameters" :> "quicr::messages::Parameter") @@
    ("New Session URI" :> "quicr::Bytes") @@
    ("Parameters" :> "quicr::messages::Parameter") @@
    ("Reason Phrase" :> "quicr::Bytes") @@
    ("Filter Type" :> "quicr::messages::FilterType") @@
    ("Group Order" :> "quicr::messages::GroupOrder") @@
    ("Fetch Type" :> "quicr::messages::FetchType") @@
    ("SubscribeDone::StatusCode" :> "quicr::messages::SubscribeDoneStatusCode") @@
    ("SubscribeError::ErrorCode" :> "quicr::messages::SubscribeErrorCode") @@
    ("AnnounceError::ErrorCode" :> "quicr::messages::AnnounceErrorCode") @@
    ("AnnounceCancel::ErrorCode" :> "quicr::messages::AnnounceErrorCode") @@
    ("SubscribeAnnouncesError::ErrorCode" :>
        "quicr::messages::SubscribeAnnouncesErrorCode") @@
    ("FetchError::ErrorCode" :> "quicr::messages::FetchErrorCode") @@
    ("Start Location" :> "quicr::messages::Location") @@
    ("End Location" :> "quicr::messages::Location") @@
    ("Largest Location" :> "quicr::messages::Location") @@
    ("Start" :> "quicr::messages::Location") @@
    ("Largest" :> "quicr::messages::Location")

\* main.py line 45
field_discards == {"Type", "Length"}

\* A dict, in insertion order: a sequence of <<key, value>> with no key
\* twice.  d[k] = v keeps the place of a key that is already there.
DictKeys(d) == {d[k][1] : k \in DOMAIN d}
DictValues(d) == {d[k][2] : k \in DOMAIN d}
DictGet(d, key) == (CHOOSE k \in DOMAIN d : d[k][1] = key)

DictSet(d, key, value) ==
    IF key \in DictKeys(d)
    THEN [k \in DOMAIN d |-> IF d[k][1] = key THEN <<key, value>> ELSE d[k]]
    ELSE Append(d, <<key, value>>)

\* Lines 67-71: the members of a group field.
RECURSIVE using_group_fields(_, _)
using_group_fields(um, group_fields) ==
    IF group_fields = <<>> THEN um
    ELSE LET group_field == group_fields[1]
         IN  using_group_fields(
                 IF group_field.cpp_using_name # None
                 THEN DictSet(um, group_field.cpp_using_name, group_field)
                 ELSE um,
                 Tail(group_fields))

\* using_field with the tests of lines 74-75 applied to the members too.
using_field_filtered(um, field) ==
    LET Kept(g) == g.spec_name \notin field_discards /\ g.is_optional = FALSE
        um1 == IF field.group_fields # <<>>
               THEN using_group_fields(um, SelectSeq(field.group_fields, Kept))
               ELSE um
    IN  IF Kept(field)
        THEN DictSet(um1, field.cpp_using_name, field)
        ELSE um1

\* Lines 66-76: one field of a message.
using_field(um, field) ==
    LET um1 == IF field.group_fields # <<>>
               THEN using_group_fields(um, field.group_fields)
               ELSE um
    IN  IF field.spec_name \notin field_discards /\ field.is_optional = FALSE
        THEN DictSet(um1, field.cpp_using_name, field)
        ELSE um1

RECURSIVE using_fields(_, _)
using_fields(um, fields) ==
    IF fields = <<>> THEN um
    ELSE using_fields(using_field(um, fields[1]), Tail(fields))

\* Lines 62-76: using_map over the messages.
RECURSIVE build_using_map(_, _)
build_using_map(um, messages) ==
    IF messages = <<>> THEN um
    ELSE build_using_map(using_fields(um, messages[1].fields), Tail(messages))

\* Lines 78-81: repeat_using_map over using_map, from entry k on.
RECURSIVE build_repeat_using_map(_, _, _)
build_repeat_using_map(rm, um, k) ==
    IF k > Len(um) THEN rm
    ELSE LET field == um[k][2]
         IN  build_repeat_using_map(
                 IF field.is_repeated
                 THEN DictSet(rm, field.cpp_using_type, field)
                 ELSE rm,
                 um, k + 1)

--------------------------------------------------------------------------
\* code_generator.py: CodeGenerator

\* list.sort(key=lambda message: message.message_enum): stable.
\* The insertion of a sort with reverse=True.
RECURSIVE InsertByEnum_reverse(_, _)
InsertByEnum_reverse(sorted, message) ==
    IF sorted = <<>> THEN <<message>>
    ELSE IF Last(sorted).message_enum >= message.message_enum
    THEN Append(sorted, message)
    ELSE Append(InsertByEnum_reverse(ButLast(sorted), message), Last(sorted))

RECURSIVE InsertByEnum(_, _)
InsertByEnum(sorted, message) ==
    IF sorted = <<>> THEN <<message>>
    ELSE IF Last(sorted).message_enum <= message.message_enum
    THEN Append(sorted, message)
    ELSE Append(InsertByEnum(ButLast(sorted), message), Last(sorted))

RECURSIVE SortFrom(_, _, _)
SortFrom(sorted, messages, k) ==
    IF k > Len(messages) THEN sorted
    ELSE SortFrom(InsertByEnum(sorted, messages[k]), messages, k + 1)

\* Line 60
sort_by_message_enum(messages) == SortFrom(<<>>, messages, 1)

\* template.render(messages=messages) of MessageSpec_Header_Enums_tmpl:
\* one enumerator per message, in the order of the list.
render_enums(messages) ==
    [k \in DOMAIN messages |->
        [name |-> messages[k].name, value |-> messages[k].message_enum]]

\* The positional parameters after self, none with a default.
CodeGenerator_init_params == <<"language">>
generate_header_params == <<"messages", "using_map">>

\* main.py lines 50 and 85-87: the arguments of the calls.
main_generator_args == <<"cpp", "filename">>
main_generate_header_args ==
    <<"messages", "using_map", "repeat_using_map", "field_discards">>

\* A Python call binds when every parameter gets one argument.
Binds(params, args) == Len(args) = Len(params)

--------------------------------------------------------------------------
\* The inputs

Ln(ob, sp, kind, name, type, default, rep, cb, comment) ==
    [ob |-> ob, sp |-> sp, kind |-> kind, name |-> name, type |-> type,
     default |-> default, rep |-> rep, cb |-> cb, comment |-> comment]

FieldLine(name, type) ==
    Ln(FALSE, FALSE, "field", name, type, <<>>, FALSE, FALSE, FALSE)

\* Type (i) = 0x1F,
TypeLine == [FieldLine(<<"Type">>, "i") EXCEPT !.default = <<"0", "x", "1", "F">>]
\* Type (i) = 0x2,
Type2Line == [FieldLine(<<"Type">>, "i") EXCEPT !.default = <<"0", "x", "2">>]
\* TYPE (8) = 7,
TypeUpperLine == [FieldLine(<<"TYPE">>, "8") EXCEPT !.default = <<"7">>]
\* Type (8) = TBD,
TypeBadLine == [FieldLine(<<"Type">>, "8") EXCEPT !.default = <<"T", "B", "D">>]
\* Error Code (i),
ErrorCodeLine == FieldLine(<<"Error", "Code">>, "i")
\* Length (i),
LengthLine == FieldLine(<<"Length">>, "i")
\* Reason Phrase (..),
ReasonLine == FieldLine(<<"Reason", "Phrase">>, "..")
\* Parameters (i) ...,
ParametersLine == [FieldLine(<<"Parameters">>, "i") EXCEPT !.rep = TRUE]
\* Parameters (i),
ParametersScalarLine == FieldLine(<<"Parameters">>, "i")
\* Blob (tuple),
BlobLine == FieldLine(<<"Blob">>, "tuple")
\* Extra (Fetch::Group_0),
ExtraLine == FieldLine(<<"Extra">>, "Fetch::Group_0")
\* # note
NoteLine == Ln(FALSE, FALSE, "", <<>>, "", <<>>, FALSE, FALSE, TRUE)
\* [Length (i),
OpenLengthLine == [FieldLine(<<"Length">>, "i") EXCEPT !.ob = TRUE]
\* [Reason Phrase (..),
OpenReasonLine == [FieldLine(<<"Reason", "Phrase">>, "..") EXCEPT !.ob = TRUE]
\* Parameters (i) ...]
CloseParametersLine ==
    [FieldLine(<<"Parameters">>, "i") EXCEPT !.rep = TRUE, !.cb = TRUE]
\* [Track Name (i)]
GroupTrackLine ==
    [FieldLine(<<"Track", "Name">>, "i") EXCEPT !.ob = TRUE, !.cb = TRUE]
\* [ Track Name (i) ]
GroupSpacedLine ==
    [FieldLine(<<"Track", "Name">>, "i") EXCEPT
        !.ob = TRUE, !.sp = TRUE, !.cb = TRUE]

LineAlphabet ==
    {TypeLine, TypeUpperLine, TypeBadLine, ErrorCodeLine, ReasonLine,
     ParametersLine, BlobLine, NoteLine, OpenLengthLine, OpenReasonLine,
     CloseParametersLine, GroupTrackLine, GroupSpacedLine}

SeqUpTo(S, n) == UNION {[1..k -> S] : k \in 0..n}

Block(header, lines) == [header |-> header, lines |-> lines]

\* One block "ANNOUNCE_ERROR Message { ... }" of up to MaxLines lines.
Blocks ==
    {Block(<<"ANNOUNCE", "ERROR">>, ls) : ls \in SeqUpTo(LineAlphabet, MaxLines)}

\* Blocks of a draft, for the runs over several blocks.
BlockCatalog ==
    {Block(<<"FETCH">>, <<TypeLine, OpenLengthLine, CloseParametersLine>>),
     Block(<<"ANNOUNCE", "ERROR">>,
           <<TypeUpperLine, ErrorCodeLine, ReasonLine>>),
     Block(<<"ANNOUNCE", "ERROR">>,
           <<Type2Line, LengthLine, ParametersLine>>),
     Block(<<"FETCH">>, <<GroupTrackLine>>),
     Block(<<"ANNOUNCE", "ERROR">>, <<Type2Line, ExtraLine>>),
     Block(<<"FETCH">>, <<ErrorCodeLine>>),
     Block(<<"FETCH">>, <<TypeLine, NoteLine>>),
     Block(<<"FETCH">>, <<TypeLine, BlobLine, OpenLengthLine, ReasonLine>>),
     Block(<<"FETCH">>, <<TypeLine, ParametersScalarLine>>)}

Texts == SeqUpTo(BlockCatalog, MaxBlocks)

--------------------------------------------------------------------------
\* The parser: parse_messages over the blocks of the text

InitWith(t, tm, at) ==
    /\ text = t
    /\ field_type_map = tm
    /\ m = 1
    /\ message_list = <<>>
    /\ frame = IdleFrame
    /\ using_map = <<>>
    /\ repeat_using_map = <<>>
    /\ header_enums = <<>>
    /\ files = {}
    /\ pc = at
    /\ exc = ""

Init == \E b \in Blocks : InitWith(<<b>>, type_map, "parse_messages")

\* Line 207: the call of parse_message on the next block.
parse_messages_call ==
    /\ pc = "parse_messages" /\ frame.pc = "idle" /\ m <= Len(text)
    /\ frame' = parse_message_enter(text[m])
    /\ UNCHANGED <<field_type_map, text, m, message_list, using_map,
                   repeat_using_map, header_enums, files, pc, exc>>

\* A stretch of parse_message takes the frame and the type table to s; an
\* exception it raises leaves parse_messages (and its caller).
Advance(s) ==
    /\ frame' = s.f
    /\ field_type_map' = s.tm
    /\ pc' = IF s.f.pc = "raised" THEN "raised" ELSE pc
    /\ exc' = s.f.exc
    /\ UNCHANGED <<text, m, message_list, using_map, repeat_using_map,
                   header_enums, files>>

Scan ==
    /\ pc = "parse_messages" /\ AtScan(frame)
    /\ Advance(parse_message_scan(frame, field_type_map))

Open ==
    /\ pc = "parse_messages" /\ AtOpen(frame)
    /\ Advance(parse_message_open(frame, field_type_map))

Member ==
    /\ pc = "parse_messages" /\ AtMember(frame)
    /\ Advance(parse_message_member(frame, field_type_map))

Close ==
    /\ pc = "parse_messages" /\ AtClose(frame)
    /\ Advance(parse_message_close(frame, field_type_map))

GroupEnd ==
    /\ pc = "parse_messages" /\ AtGroupEnd(frame)
    /\ Advance(parse_message_group_end(frame, field_type_map))

Return ==
    /\ pc = "parse_messages" /\ AtReturn(frame)
    /\ Advance(parse_message_return(frame, field_type_map))

\* Lines 208-209: the message, unless it is None, joins the list.
parse_messages_collect ==
    /\ pc = "parse_messages" /\ frame.pc = "returned"
    /\ message_list' = message_list \o frame.result
    /\ m' = m + 1
    /\ frame' = IdleFrame
    /\ UNCHANGED <<field_type_map, text, using_map, repeat_using_map,
                   header_enums, files, pc, exc>>

\* Line 211
parse_messages_return ==
    /\ pc = "parse_messages" /\ frame.pc = "idle" /\ m > Len(text)
    /\ pc' = "parsed"
    /\ UNCHANGED <<field_type_map, text, m, message_list, frame, using_map,
                   repeat_using_map, header_enums, files, exc>>

NextParser ==
    \/ parse_messages_call
    \/ Scan
    \/ Open
    \/ Member
    \/ Close
    \/ GroupEnd
    \/ Return
    \/ parse_messages_collect
    \/ parse_messages_return

Spec == Init /\ [][NextParser]_vars

\* The interpreter goes on with the statement it is at for as long as
\* there is one.
LiveAlphabet ==
    {TypeLine, ReasonLine, ParametersLine, NoteLine, OpenLengthLine,
     OpenReasonLine, CloseParametersLine, GroupTrackLine}

InitLive ==
    \E ls \in SeqUpTo(LiveAlphabet, MaxLines) :
        InitWith(<<Block(<<"ANNOUNCE", "ERROR">>, ls)>>, type_map,
                 "parse_messages")

SpecLive == InitLive /\ [][NextParser]_vars /\ WF_vars(NextParser)

\* The parser over one block of at most one line, with every type table
\* over the three lookup keys of "Error Code (i)" in AnnounceError.
ResolveKeys == {"AnnounceError::ErrorCode", "Error Code", "i"}

ResolveValues == {"quicr::messages::AnnounceErrorCode", "std::uint64_t"}

ResolveTables ==
    UNION {[keys -> ResolveValues] : keys \in SUBSET ResolveKeys}

InitResolve ==
    \E header \in {<<"ANNOUNCE", "ERROR">>, <<"FETCH">>},
       ls \in {<<>>} \cup {<<l>> : l \in LineAlphabet},
       tm \in ResolveTables :
        InitWith(<<Block(header, ls)>>, tm, "parse_messages")

SpecResolve == InitResolve /\ [][NextParser]_vars

--------------------------------------------------------------------------
\* The stages of main.py in the order the data flows: parse_messages
\* (line 55), the alias aggregation (lines 62-81) and generate_header, each
\* with the parameters its definition declares.

InitRun == \E t \in Texts : InitWith(t, type_map, "parse_messages")

\* main.py lines 62-81
aggregate ==
    /\ pc = "parsed"
    /\ using_map' = build_using_map(<<>>, message_list)
    /\ repeat_using_map' = build_repeat_using_map(<<>>, using_map', 1)
    /\ pc' = "aggregated"
    /\ UNCHANGED <<field_type_map, text, m, message_list, frame,
                   header_enums, files, exc>>

\* code_generator.py lines 117-127 with lines 52-62: the sort is in place.
generate_header ==
    /\ pc = "aggregated"
    /\ message_list' = sort_by_message_enum(message_list)
    /\ header_enums' = render_enums(message_list')
    /\ pc' = "generated"
    /\ UNCHANGED <<field_type_map, text, m, frame, using_map,
                   repeat_using_map, files, exc>>

NextRun == NextParser \/ aggregate \/ generate_header

SpecRun == InitRun /\ [][NextRun]_vars

--------------------------------------------------------------------------
\* main.py: main as it is written

InitMain == \E t \in Texts : InitWith(t, type_map, "main")

\* Lines 47-49: the parser shares main's type_map.
main_parser ==
    /\ pc = "main"
    /\ pc' = "main_generator"
    /\ UNCHANGED <<field_type_map, text, m, message_list, frame, using_map,
                   repeat_using_map, header_enums, files, exc>>

\* Line 50: CodeGenerator("cpp", filename) against __init__(self, language).
main_generator ==
    /\ pc = "main_generator"
    /\ IF Binds(CodeGenerator_init_params, main_generator_args)
       THEN pc' = "main_read" /\ exc' = exc
       ELSE pc' = "raised" /\ exc' = "TypeError"
    /\ UNCHANGED <<field_type_map, text, m, message_list, frame, using_map,
                   repeat_using_map, header_enums, files>>

NextMain == main_parser \/ main_generator

SpecMain == InitMain /\ [][NextMain]_vars

--------------------------------------------------------------------------
\* Properties of the Scanning state

\* The field the line at the head of the outer loop parses to.
ScanParsed ==
    parse_field_definition(frame.message_name, Line(frame), None,
                           field_type_map)

\* int(field.default_value, 16) of line 171 is reached and raises.
ScanConversionFails ==
    /\ ScanParsed[1].name = "type"
    /\ ScanParsed[1].default_value # <<>>
    /\ ~IsHex(ScanParsed[1].default_value)

\* The outer loop is at a top-level line that parses to a field flagged
\* repeated or variable-length.
AtSizedScan ==
    /\ pc = "parse_messages" /\ AtScan(frame)
    /\ ScanParsed # <<>>
    /\ ScanParsed[1].is_repeated \/ ScanParsed[1].is_variable_length

\* The step replaced the last field of the flat list by the new field,
\* which carries the replaced field's alias type.
Elided ==
    /\ frame'.pc = "scan"
    /\ frame'.i = frame.i + 1
    /\ frame.fields # <<>>
    /\ Len(frame'.fields) = Len(frame.fields)
    /\ ButLast(frame'.fields) = ButLast(frame.fields)
    /\ Last(frame'.fields).spec_name = ScanParsed[1].spec_name
    /\ Last(frame'.fields).variable_length_size_cpp_using_type =
           Last(frame.fields).cpp_using_type

MemberParsed ==
    parse_field_definition(
        frame.message_name,
        IF StartsWithBracket(Line(frame)) THEN DropFirst(Line(frame))
        ELSE Line(frame),
        frame.current_group, field_type_map)

\* C2: a line that yields no field is skipped silently, in the Scanning
\* state and inside a group: parse_message goes on to the next line, and
\* the fields collected so far stay as they are.
C2_SkippedSilently ==
    [][(/\ pc = "parse_messages"
        /\ \/ AtScan(frame) /\ ScanParsed = <<>>
           \/ AtMember(frame) /\ MemberParsed = <<>>)
       => /\ frame'.pc = frame.pc
          /\ frame'.i = frame.i + 1
          /\ frame'.fields = frame.fields
          /\ frame'.group_fields = frame.group_fields]_vars

--------------------------------------------------------------------------
\* Properties of the Group state

\* The line that closes the group, as the loop passes it on.
CloseParsed ==
    IF IsEmpty(DropLast(Line(frame))) THEN <<>>
    ELSE parse_field_definition(frame.message_name, DropLast(Line(frame)),
                                frame.current_group, field_type_map)

\* The inner loop is at a line that parses to a member flagged repeated or
\* variable-length, with a member collected before it.
AtSizedMember ==
    /\ pc = "parse_messages"
    /\ frame.group_fields # <<>>
    /\ \/ /\ AtMember(frame) /\ MemberParsed # <<>>
          /\ MemberParsed[1].is_repeated \/ MemberParsed[1].is_variable_length
       \/ /\ AtClose(frame) /\ CloseParsed # <<>>
          /\ CloseParsed[1].is_repeated \/ CloseParsed[1].is_variable_length

\* C10: inside a group every member flagged repeated or variable-length,
\* on an interior line or on the closing line, has the member appended
\* before it removed from the group's list and that member's alias type
\* recorded as its size-field type.
C10_GroupElides ==
    [][AtSizedMember =>
          /\ frame'.pc # "raised"
          /\ Len(frame'.group_fields) = Len(frame.group_fields)
          /\ ButLast(frame'.group_fields) = ButLast(frame.group_fields)
          /\ Last(frame'.group_fields).variable_length_size_cpp_using_type =
                 Last(frame.group_fields).cpp_using_type
          /\ frame'.current_group_field[1].group_fields =
                 frame'.group_fields]_vars

--------------------------------------------------------------------------
\* Properties of the wire-type id

\* The lines the Scanning state parses as fields of the message itself: a
\* line that starts with "[" opens a group, which runs to the first line,
\* from that one on, that ends with "]".
RECURSIVE TopLevelLines(_, _, _)
TopLevelLines(lines, k, ingroup) ==
    IF k > Len(lines) THEN {}
    ELSE IF ingroup \/ StartsWithBracket(lines[k])
    THEN TopLevelLines(lines, k + 1, ~EndsWithBracket(lines[k]))
    ELSE {k} \cup TopLevelLines(lines, k + 1, FALSE)

\* A field line named type (in any case) that gives a default.
IsTypeLine(line) ==
    /\ line.kind = "field"
    /\ Join(MapWords(lower, line.name), "_") = "type"
    /\ line.default # <<>>

\* The value of a hexadecimal literal, digit by digit by position.
RECURSIVE PositionalValue(_, _)
PositionalValue(digits, k) ==
    IF k > Len(digits) THEN 0
    ELSE HexDigits[digits[k]] * 16 ^ (Len(digits) - k)
         + PositionalValue(digits, k + 1)

HexLiteralValue(s) ==
    PositionalValue(IF Len(s) >= 2 /\ s[1] = "0" /\ s[2] \in {"x", "X"}
                    THEN SubSeq(s, 3, Len(s)) ELSE s, 1)

Max(S) == CHOOSE x \in S : \A y \in S : y <= x

\* C4: the message_enum of a message parse_message returns is the integer
\* value of the hexadecimal default of the block's field named type (name
\* compared in lower case); of the last such top-level line, should the
\* block have several.
C4_WireTypeId ==
    (frame.pc = "returned" /\ frame.result # <<>>) =>
        LET T == {k \in TopLevelLines(frame.lines, 1, FALSE) :
                     IsTypeLine(frame.lines[k])}
        IN  /\ T # {}
            /\ frame.result[1].message_enum =
                   HexLiteralValue(frame.lines[Max(T)].default)

\* C4's case: a returned message whose type field gave 0x1F.
C4_Witness ==
    /\ frame.pc = "returned"
    /\ frame.result # <<>>
    /\ frame.result[1].message_enum = 31
    /\ \E k \in DOMAIN frame.lines : frame.lines[k] = TypeLine

--------------------------------------------------------------------------
\* Properties of the type resolution

\* The line a step of the loop passes to parse_field_definition.
StepLine ==
    IF AtScan(frame) THEN StripComment(Line(frame))
    ELSE IF AtClose(frame) THEN DropLast(Line(frame))
    ELSE IF StartsWithBracket(Line(frame))
    THEN StripComment(DropFirst(Line(frame)))
    ELSE StripComment(Line(frame))

\* The loop is at a line that matches the field grammar.
AtFieldLine ==
    /\ pc = "parse_messages"
    /\ AtScan(frame) \/ AtMember(frame) \/ AtClose(frame)
    /\ Matches(StepLine)

\* The field the step added: to the flat list in the Scanning state, to
\* the group's list in a group.
StepField ==
    IF AtScan(frame) THEN Last(frame'.fields) ELSE Last(frame'.group_fields)

\* The lookup keys of the line, in the order of precedence, and those
\* among them the type table has.
LookupKeys ==
    <<frame.message_name \o "::" \o Join(StepLine.name, ""),
      Join(StepLine.name, " "),
      StepLine.type>>

InTable(key) == key \in DOMAIN field_type_map
PresentKeys == SelectSeq(LookupKeys, InTable)

\* The step raises for a reason other than the resolution: the pop from an
\* empty list (lines 152 and 177) or the conversion of line 171.
RaisesRegardless ==
    \/ /\ AtScan(frame)
       /\ \/ ScanConversionFails
          \/ /\ ScanParsed[1].is_repeated \/ ScanParsed[1].is_variable_length
             /\ frame.fields = <<>>
    \/ /\ AtMember(frame)
       /\ MemberParsed[1].is_variable_length
       /\ frame.group_fields = <<>>

\* C6: the resolved type of a field is the table's value at the first of
\* the qualified key, the bare label and the spec type that the table
\* has, whatever the later ones map to.
C6_Precedence ==
    [][(AtFieldLine /\ ~RaisesRegardless /\ PresentKeys # <<>>) =>
          /\ frame'.pc # "raised"
          /\ StepField.spec_name = Join(StepLine.name, " ")
          /\ StepField.cpp_type = field_type_map[PresentKeys[1]]]_vars

\* C6's case: a field resolved by its qualified key while the bare label
\* and the spec type are in the table with other values.
C6_Witness ==
    /\ frame.pc = "scan"
    /\ Len(frame.fields) = 1
    /\ frame.fields[1].spec_name = "Error Code"
    /\ {"AnnounceError::ErrorCode", "Error Code", "i"} \subseteq
           DOMAIN field_type_map
    /\ frame.fields[1].cpp_type = field_type_map["AnnounceError::ErrorCode"]
    /\ field_type_map["Error Code"] # frame.fields[1].cpp_type
    /\ field_type_map["i"] # frame.fields[1].cpp_type

\* C7: with the qualified key, the bare label and the spec type all absent
\* from the table, the step does not raise: the field is produced with a
\* resolved type that is the marker around its label, and the loop goes
\* on to the next line.
C7_Sentinel ==
    [][(AtFieldLine /\ ~RaisesRegardless /\ PresentKeys = <<>>) =>
          /\ frame'.pc # "raised"
          /\ frame'.pc = (IF AtClose(frame) THEN "closed" ELSE frame.pc)
          /\ frame'.i = (IF AtClose(frame) THEN frame.i ELSE frame.i + 1)
          /\ StepField.spec_name = Join(StepLine.name, " ")
          /\ StepField.cpp_type =
                 "#error \"field_type_map look error for "
                     \o Join(StepLine.name, " ") \o "\""
          /\ StepField.cpp_type \notin {field_type_map[k] :
                                           k \in DOMAIN field_type_map}]_vars

\* C7's case: an unresolved field in the flat list, and the field of a
\* later line after it.
C7_Witness ==
    /\ Len(frame.fields) >= 2
    /\ frame.fields[1].spec_name = "Blob"
    /\ frame.fields[1].cpp_type =
           "#error \"field_type_map look error for Blob\""
    /\ frame.fields[2].group_name = None

--------------------------------------------------------------------------
\* Properties of parse_messages

\* The block has a top-level field named type that gives a default.
HasWireType(block) ==
    \E k \in TopLevelLines(block.lines, 1, FALSE) : IsTypeLine(block.lines[k])

WireTypeOf(block) ==
    LET T == {k \in TopLevelLines(block.lines, 1, FALSE) :
                 IsTypeLine(block.lines[k])}
    IN  HexLiteralValue(block.lines[Max(T)].default)

Remove(seq, k) == SubSeq(seq, 1, k - 1) \o SubSeq(seq, k + 1, Len(seq))

\* message_list holds the blocks of the text that have a wire-type id, in
\* the order of the text.
ReturnsCarriers ==
    LET carriers == SelectSeq(text, HasWireType)
    IN  /\ Len(message_list) = Len(carriers)
        /\ \A k \in DOMAIN carriers :
              /\ message_list[k].spec_name = Join(carriers[k].header, "_")
              /\ message_list[k].message_enum = WireTypeOf(carriers[k])

\* message_list is what parse_messages returns for the text without its
\* k-th block.
SameWithout(k) ==
    LET r == parse_messages(Remove(text, k), type_map)
    IN  r.exc = "" /\ r.message_list = message_list

\* The type names block k of the text added to the type table.
RegisteredBy(k) ==
    LET before == parse_messages(SubSeq(text, 1, k - 1), type_map).tm
    IN  DOMAIN parse_message(text[k], before).tm \ DOMAIN before

\* The lookup keys of the field lines of a block.
KeysOf(block) ==
    UNION {{Join(MapWords(title, block.header), "") \o "::"
                \o Join(block.lines[j].name, ""),
            Join(block.lines[j].name, " "),
            block.lines[j].type} :
           j \in {i \in DOMAIN block.lines : block.lines[i].kind = "field"}}

--------------------------------------------------------------------------
\* Properties of the alias aggregation

TopFields == UNION {{message_list[k].fields[j] :
                        j \in DOMAIN message_list[k].fields} :
                    k \in DOMAIN message_list}

MemberFields == UNION {{f.group_fields[j] : j \in DOMAIN f.group_fields} :
                       f \in TopFields}

Qualifies(f) == f.spec_name \notin {"Type", "Length"} /\ ~f.is_optional

\* C8 as stated: after the aggregation using_map has an entry for an alias
\* name exactly when a top-level field or a group member with that alias
\* name is neither discarded (named Type or Length) nor optional, and no
\* discarded and no optional field is a value of the map.
C8_OnlyQualifying ==
    pc = "aggregated" =>
        /\ DictKeys(using_map) =
               {f.cpp_using_name :
                   f \in {g \in TopFields \cup MemberFields : Qualifies(g)}}
        /\ \A v \in DictValues(using_map) : Qualifies(v)

\* C8, amended: using_map has an entry for an alias name exactly when a
\* group member has that alias name, or a top-level field with that alias
\* name is neither discarded nor optional; every value is such a field,
\* under its own alias name.
C8_MembersUnfiltered ==
    pc = "aggregated" =>
        /\ DictKeys(using_map) =
               {f.cpp_using_name : f \in MemberFields}
               \cup {f.cpp_using_name : f \in {g \in TopFields : Qualifies(g)}}
        /\ \A k \in DOMAIN using_map :
              /\ using_map[k][2].cpp_using_name = using_map[k][1]
              /\ \/ using_map[k][2] \in MemberFields
                 \/ using_map[k][2] \in TopFields /\ Qualifies(using_map[k][2])

\* C8's case: the map holds an optional group member named Length beside
\* a top-level field.
C8_Witness ==
    /\ pc = "aggregated"
    /\ \E v \in DictValues(using_map) :
          v.is_optional /\ v.spec_name = "Length" /\ v \in MemberFields
    /\ \E v \in DictValues(using_map) : ~v.is_optional

--------------------------------------------------------------------------
\* Properties of the generated header

Count(seq, x) == Cardinality({k \in DOMAIN seq : seq[k] = x})

\* The messages that survive the assembly, in the order they were parsed.
Survivors == parse_messages(text, type_map).message_list

\* C9: the enum section lists the surviving messages in ascending order of
\* message_enum, each exactly once, whatever order they were parsed in.
C9_EnumsAscending ==
    pc = "generated" =>
        /\ \A j, k \in DOMAIN header_enums :
              j < k => header_enums[j].value <= header_enums[k].value
        /\ Len(header_enums) = Len(Survivors)
        /\ \A k \in DOMAIN Survivors :
              Count(header_enums, render_enums(Survivors)[k]) =
                  Count(render_enums(Survivors), render_enums(Survivors)[k])

\* C9's case: a header for two messages that were parsed in descending
\* order of message_enum.
C9_Witness ==
    /\ pc = "generated"
    /\ Len(Survivors) >= 2
    /\ Survivors[1].message_enum > Survivors[2].message_enum
    /\ Len(header_enums) >= 2

--------------------------------------------------------------------------
\* Properties of main

\* C5: the run writes both output files if and only if a message survives
\* the assembly, and writes nothing otherwise.
C5_WritesIffSurvivors ==
    pc \in {"raised", "main_done"} =>
        (files = {"h", "cpp"}) <=>
            (parse_messages(text, type_map).exc = "" /\ Survivors # <<>>)

--------------------------------------------------------------------------
\* Properties of the groups

\* The line that opened the group the line at index target belongs to, 0
\* when that line is a top-level line: a walk from line k, with open the
\* line that opened the group line k is in.
RECURSIVE GroupOpen(_, _, _, _)
GroupOpen(lines, k, open, target) ==
    LET o == IF open = 0 /\ StartsWithBracket(lines[k]) THEN k ELSE open
    IN  IF k = target THEN o
        ELSE GroupOpen(lines, k + 1,
                       IF o # 0 /\ EndsWithBracket(lines[k]) THEN 0 ELSE o,
                       target)

\* The inner loop has ended at line EndLine of the group that OpenLine
\* opened, the group number GroupNumber of the block (from 0).
EndLine == IF frame.i <= Len(frame.lines) THEN frame.i ELSE Len(frame.lines)
OpenLine == GroupOpen(frame.lines, 1, 0, EndLine)
GroupNumber ==
    Cardinality({j \in 1..(OpenLine - 1) :
                    GroupOpen(frame.lines, 1, 0, j) = j})
GroupName == "Group_" \o ToString(GroupNumber)

\* What line j of the group parses to: <<>> or <<field>>.
MemberOf(j) ==
    LET line == frame.lines[j]
        body == IF EndsWithBracket(line) THEN DropLast(line)
                ELSE IF StartsWithBracket(line) THEN DropFirst(line)
                ELSE line
    IN  IF IsEmpty(body) THEN <<>>
        ELSE parse_field_definition(frame.message_name, body, GroupName,
                                    field_type_map)

\* The lines of the group that parse to a member, in line order.
MemberLines ==
    LET Yields(j) == MemberOf(j) # <<>>
    IN  SelectSeq([n \in 1..(EndLine - OpenLine + 1) |-> OpenLine + n - 1],
                  Yields)

\* The member of line MemberLines[n] is taken as its size field by the
\* member after it: a variable-length member on a line that does not
\* close the group.
TakenAsSize(n) ==
    /\ n < Len(MemberLines)
    /\ MemberOf(MemberLines[n + 1])[1].is_variable_length
    /\ ~EndsWithBracket(frame.lines[MemberLines[n + 1]])

NoSize(field) == [field EXCEPT !.variable_length_size_cpp_using_type = Unset]

\* The members of a nested list, without what elision recorded on them.
Members(group_fields) ==
    [n \in DOMAIN group_fields |-> NoSize(group_fields[n])]

AllMembers == [n \in DOMAIN MemberLines |-> MemberOf(MemberLines[n])[1]]

KeptMembers ==
    LET kept == SelectSeq([n \in DOMAIN MemberLines |-> n],
                          LAMBDA n : ~TakenAsSize(n))
    IN  [n \in DOMAIN kept |-> MemberOf(MemberLines[kept[n]])[1]]

\* The step appends one aggregate named for the group to the flat list,
\* with the nested list members, and goes back to the Scanning state at
\* the line after the one the group ended on.
AppendsAggregate(members) ==
    /\ frame'.pc = "scan"
    /\ frame'.i = frame.i + 1
    /\ Len(frame'.fields) = Len(frame.fields) + 1
    /\ ButLast(frame'.fields) = frame.fields
    /\ Last(frame'.fields).name = "group_" \o ToString(GroupNumber)
    /\ Last(frame'.fields).group_name = GroupName
    /\ Members(Last(frame'.fields).group_fields) = members
    /\ \A n \in DOMAIN members :
          members[n].is_optional /\ members[n].group_name = GroupName

\* A line that starts with "[" in the Scanning state opens the group with
\* the next number.
OpensGroup ==
    (pc = "parse_messages" /\ AtOpen(frame)) =>
        /\ frame'.pc = "group"
        /\ frame'.current_group =
               "Group_" \o ToString(Cardinality(
                   {j \in 1..(frame.i - 1) :
                       GroupOpen(frame.lines, 1, 0, j) = j}))

InGroup == pc = "parse_messages" /\ frame.pc = "group" /\ AtLine(frame)

--------------------------------------------------------------------------
\* Properties of the type table

\* The type name of the group whose loop has ended.
GroupType == frame.message_name \o "::" \o GroupName

\* The keys the run has added to the mapping the caller supplied.
RegisteredNames == DOMAIN field_type_map \ DOMAIN type_map

\* C12: when a group ends, the type table afterwards maps the group's type
\* name <MessageName>::Group_<n> to itself, and has every other entry as
\* before; no other step changes the table, so it only grows from main's
\* type_map; and a later field whose lookup hits a registered name (the
\* first of its keys that the table has) resolves to that name.
C12_Registration ==
    [][/\ (pc = "parse_messages" /\ AtGroupEnd(frame)) =>
              /\ DOMAIN field_type_map' = DOMAIN field_type_map \cup {GroupType}
              /\ field_type_map'[GroupType] = GroupType
              /\ \A k \in DOMAIN field_type_map \ {GroupType} :
                    field_type_map'[k] = field_type_map[k]
       /\ ~(pc = "parse_messages" /\ AtGroupEnd(frame)) =>
              field_type_map' = field_type_map
       /\ \A k \in DOMAIN type_map :
              k \in DOMAIN field_type_map' /\ field_type_map'[k] = type_map[k]
       /\ (/\ AtFieldLine /\ ~RaisesRegardless
           /\ PresentKeys # <<>> /\ PresentKeys[1] \in RegisteredNames) =>
              StepField.cpp_type = PresentKeys[1]]_vars

\* C12's case: a group of the first block is registered, and a field of
\* the next block whose spec type is the group's type name resolved to it.
C12_Witness ==
    /\ "Fetch::Group_0" \in RegisteredNames
    /\ field_type_map["Fetch::Group_0"] = "Fetch::Group_0"
    /\ m = 2
    /\ \E n \in DOMAIN frame.fields :
          /\ frame.fields[n].spec_type = "Fetch::Group_0"
          /\ frame.fields[n].cpp_type = "Fetch::Group_0"

--------------------------------------------------------------------------
\* Properties of the repeated-alias map

\* The fields the aggregation enters into using_map: every group member,
\* and the top-level fields that are neither discarded nor optional.
EntersUsingMap(f) == f \in MemberFields \/ (f \in TopFields /\ Qualifies(f))

\* C13: after the aggregation repeat_using_map has an entry keyed by the
\* alias type of every repeated field, top-level or group member, that
\* qualifies for using_map, and every value of repeat_using_map is a
\* repeated field; also when fields of several messages share an alias
\* name.
C13_RepeatedAliases ==
    pc = "aggregated" =>
        /\ \A f \in TopFields \cup MemberFields :
              (f.is_repeated /\ EntersUsingMap(f)) =>
                  f.cpp_using_type \in DictKeys(repeat_using_map)
        /\ \A v \in DictValues(repeat_using_map) : v.is_repeated

--------------------------------------------------------------------------
\* Properties of the loops of parse_message

\* parse_message is in its loops.
Running == pc = "parse_messages" /\ frame.pc \in {"scan", "group", "closed"}

\* The step passes the line at the index to parse_field_definition.
Consumes ==
    pc = "parse_messages" /\ (AtScan(frame) \/ AtMember(frame) \/ AtClose(frame))

\* The place of a frame in the loops: the index, and within one index the
\* Scanning state, then the group loop, then the end of the group.
Rank(f) ==
    3 * f.i + (CASE f.pc = "scan" -> 0 [] f.pc = "group" -> 1
                 [] f.pc = "closed" -> 2 [] OTHER -> 0)

\* The index goes up by one at a time, only past a line that was consumed
\* or past the end of the block; a consumed line is not consumed again;
\* and the loops end only past the last line.
IndexAdvances ==
    Running =>
        /\ frame'.i \in {frame.i, frame.i + 1}
        /\ frame'.i <= Len(frame.lines) + 2
        /\ frame'.i = frame.i + 1 =>
               Consumes \/ frame.pc = "closed" \/ ~AtLine(frame)
        /\ (Consumes /\ frame'.pc # "raised") =>
               frame'.i = frame.i + 1 \/ frame'.pc = "closed"
        /\ frame.pc = "closed" => frame'.pc = "scan" /\ frame'.i = frame.i + 1
        /\ frame'.pc \in {"scan", "group", "closed"} =>
               Rank(frame') > Rank(frame)
        /\ frame'.pc = "returned" => frame.i > Len(frame.lines)

\* The lines from the one that opens a group to the first one that ends
\* with "]", or to the end of the block, are lines of the group loop.
GroupAbsorbs ==
    (Running /\ AtLine(frame)) =>
        /\ frame.pc = "group" => GroupOpen(frame.lines, 1, 0, frame.i) # 0
        /\ frame.pc = "scan" =>
               GroupOpen(frame.lines, 1, 0, frame.i) \in {0, frame.i}

\* The lines ran out in a group: the step appends the aggregate and the
\* Scanning loop is past the last line.
UnclosedEnds ==
    (Running /\ frame.pc = "group" /\ ~AtLine(frame)) =>
        /\ Len(frame'.fields) = Len(frame.fields) + 1
        /\ Last(frame'.fields).group_name = frame.current_group
        /\ Last(frame'.fields).group_name = GroupName
        /\ Members(Last(frame'.fields).group_fields) = KeptMembers
        /\ AtReturn(frame')

==========================================================================
